---- MODULE Spec2Model ----
(***************************************************************************)
(* Model of the multiplatform deep researcher backend: the session         *)
(* registry (backend/services/session.py), the research task               *)
(* (backend/services/research.py), the three-stage flow                    *)
(* (backend/services/flow.py) and the websocket endpoint                   *)
(* (backend/api/websocket.py).                                             *)
(*                                                                         *)
(* The program runs on one asyncio event loop: an action of the model is   *)
(* the code a task executes between two suspension points (an awaited      *)
(* websocket send, the awaited specialist crew, the gather join).          *)
(***************************************************************************)
EXTENDS Integers, Sequences, FiniteSets, TLC

\* ------------------------------------------------------------------ bounds
MaxDispatch == 2
MaxUrls == 1

\* --------------------------------------------------------------- constants
SessionIds == {"s1"}
Channels == {"A"}
Queries == {"q"}
URLs == {"u1"}

PlatformOrder == <<"instagram", "linkedin", "youtube", "x", "web">>
Platforms == {PlatformOrder[i] : i \in 1..Len(PlatformOrder)}
AgentIds == <<"search", "instagram", "linkedin", "youtube", "x", "web", "synthesis">>
AgentSet == {AgentIds[i] : i \in 1..Len(AgentIds)}

SentinelUrl == "https://invalid.local"
FabricatedUrl == "https://fabricated.example"
NoMsg == "None"
NoResult == "None"
ReportTexts == {"report"}

UrlSeqs == UNION {[1..n -> URLs] : n \in 1..MaxUrls}
EmptyBuckets == [p \in Platforms |-> <<>>]
NonEmpty(b) == {p \in Platforms : b[p] # <<>>}
\* the buckets Discover may produce: up to MaxDispatch platforms hold the same
\* non-empty URL list, the others are empty
BucketChoices ==
    {[p \in Platforms |-> IF p \in D THEN urls ELSE <<>>] :
        D \in {X \in SUBSET Platforms : Cardinality(X) <= MaxDispatch}, urls \in UrlSeqs}

\* ------------------------------------------------------------------- state
VARIABLES sessions, websockets, received, broadcasts, chan, pc, discovery,
          urls_buckets, task, results_raw, settled, specialist_results,
          final_response, sweep, outcomes, sending

vars == <<sessions, websockets, received, broadcasts, chan, pc, discovery,
          urls_buckets, task, results_raw, settled, specialist_results,
          final_response, sweep, outcomes, sending>>

\* outcomes is a history variable: what the flow constructor, the crews and
\* the tool adapters did in this run, recorded as the run consumes it
flowVars == <<discovery, urls_buckets, task, results_raw, settled,
              specialist_results, final_response, sweep, outcomes>>

NoOutcomes == [built |-> "none", buckets |-> EmptyBuckets, failed |-> {}, synthesis |-> "none"]

\* ---------------------------------------------------------------- registry
\* variant: a session is created already running
NewSessionRunning(q) ==
    [query |-> q, status |-> "running",
     agents |-> [a \in AgentSet |-> [status |-> "waiting", message |-> NoMsg]],
     result |-> NoResult]

\* SessionManager.create_session lines 25-38
NewSession(q) ==
    [query |-> q, status |-> "pending",
     agents |-> [a \in AgentSet |-> [status |-> "waiting", message |-> NoMsg]],
     result |-> NoResult]

Event(type, agent_id, status, message, payload) ==
    [type |-> type, agent_id |-> agent_id, status |-> status,
     message |-> message, payload |-> payload]

AgentUpdate(agent_id, status, message) == Event("agent_update", agent_id, status, message, <<>>)

\* the registry as one value, so that the helpers below compose
Reg == [sessions |-> sessions, websockets |-> websockets,
        received |-> received, broadcasts |-> broadcasts, sending |-> sending]

Remove(f, k) == [x \in DOMAIN f \ {k} |-> f[x]]

\* variant: a failed send is swallowed but the channel stays bound
BroadcastKeepsChannel(r, sid, data, ok) ==
    LET r1 == [r EXCEPT !.broadcasts[sid] = Append(@, data)]
    IN  IF sid \in DOMAIN r1.websockets /\ ok
        THEN [r1 EXCEPT !.received[r1.websockets[sid]] = Append(@, data)]
        ELSE r1

\* variant: a failed send surfaces to the caller, whose handler marks the
\* session as failed
BroadcastSurfacesFailure(r, sid, data, ok) ==
    LET r1 == [r EXCEPT !.broadcasts[sid] = Append(@, data)]
    IN  IF sid \in DOMAIN r1.websockets
        THEN IF ok
             THEN [r1 EXCEPT !.received[r1.websockets[sid]] = Append(@, data)]
             ELSE [r1 EXCEPT !.websockets = Remove(@, sid), !.received[r1.websockets[sid]] = <<>>,
                             !.sessions[sid].status = "error"]
        ELSE r1

\* variant: the event goes to every registered connection
BroadcastToAll(r, sid, data, ok) ==
    LET r1 == [r EXCEPT !.broadcasts[sid] = Append(@, data)]
        bound == {r1.websockets[x] : x \in DOMAIN r1.websockets}
    IN  IF ok
        THEN [r1 EXCEPT !.received = [c \in DOMAIN @ |-> IF c \in bound THEN Append(@[c], data) ELSE @[c]]]
        ELSE IF sid \in DOMAIN r1.websockets
             THEN [r1 EXCEPT !.websockets = Remove(@, sid), !.received[r1.websockets[sid]] = <<>>]
             ELSE r1

\* connections whose send_json suspends the caller at line 70: the send is
\* recorded in sending and ends in a step of its own (SendEnd). On the other
\* connections the send returns or raises within the caller's step.
SlowChannels == {"S", "T"}

\* SessionManager.broadcast: ok is the outcome of websocket.send_json.
\* broadcasts records the calls; received[c] holds what was delivered on
\* connection c and is dropped with the connection once it is unusable.
Broadcast(r, sid, data, ok) ==
    LET r1 == [r EXCEPT !.broadcasts[sid] = Append(@, data)]
    IN  IF sid \in DOMAIN r1.websockets
        THEN IF r1.websockets[sid] \in SlowChannels
             THEN [r1 EXCEPT !.sending[sid] = <<[c |-> r1.websockets[sid], data |-> data]>>]
             ELSE IF ok
             THEN [r1 EXCEPT !.received[r1.websockets[sid]] = Append(@, data)]
             ELSE [r1 EXCEPT !.websockets = Remove(@, sid), !.received[r1.websockets[sid]] = <<>>]
        ELSE r1

\* variant: the update replaces the agents map by a fresh one holding only
\* the updated slot
UpdateAgentStatusOverwrites(r, sid, agent_id, status, message, ok) ==
    IF sid \in DOMAIN r.sessions
    THEN LET r1 == [r EXCEPT !.sessions[sid].agents =
                        [a \in AgentSet |->
                            IF a = agent_id
                            THEN [status |-> status,
                                  message |-> IF message # NoMsg THEN message ELSE @[a].message]
                            ELSE [status |-> "waiting", message |-> NoMsg]]]
         IN  Broadcast(r1, sid, AgentUpdate(agent_id, status, message), ok)
    ELSE r

\* variant: the update is broadcast whether or not the session exists
UpdateAgentStatusAlwaysBroadcasts(r, sid, agent_id, status, message, ok) ==
    LET r1 == IF sid \in DOMAIN r.sessions
              THEN [r EXCEPT !.sessions[sid].agents[agent_id].status = status,
                             !.sessions[sid].agents[agent_id].message =
                                 IF message # NoMsg THEN message ELSE @]
              ELSE r
    IN  Broadcast(r1, sid, AgentUpdate(agent_id, status, message), ok)

\* variant: the update also creates a slot under a key the map does not have
UpdateAgentStatusCreatesSlot(r, sid, agent_id, status, message, ok) ==
    IF sid \in DOMAIN r.sessions
    THEN LET old == r.sessions[sid].agents
             r1 == [r EXCEPT !.sessions[sid].agents =
                        [a \in AgentSet \cup {"agent"} |->
                            IF a = agent_id
                            THEN [status |-> status,
                                  message |-> IF message # NoMsg THEN message ELSE old[a].message]
                            ELSE IF a \in DOMAIN old THEN old[a]
                            ELSE [status |-> status, message |-> NoMsg]]]
         IN  Broadcast(r1, sid, AgentUpdate(agent_id, status, message), ok)
    ELSE r

\* variant: only an update that carries a message is broadcast
UpdateAgentStatusBroadcastsOnMessage(r, sid, agent_id, status, message, ok) ==
    IF sid \in DOMAIN r.sessions
    THEN LET r1 == [r EXCEPT !.sessions[sid].agents[agent_id].status = status,
                             !.sessions[sid].agents[agent_id].message =
                                 IF message # NoMsg THEN message ELSE @]
         IN  IF message # NoMsg
             THEN Broadcast(r1, sid, AgentUpdate(agent_id, status, message), ok)
             ELSE r1
    ELSE r

\* variant: the event is handed to the connection first and the slot is
\* written once the send has returned
UpdateAgentStatusSendsFirst(r, sid, agent_id, status, message, ok) ==
    IF sid \in DOMAIN r.sessions
    THEN LET r1 == Broadcast(r, sid, AgentUpdate(agent_id, status, message), ok)
         IN  IF r1.sending[sid] # <<>> THEN r1
             ELSE [r1 EXCEPT !.sessions[sid].agents[agent_id].status = status,
                             !.sessions[sid].agents[agent_id].message =
                                 IF message # NoMsg THEN message ELSE @]
    ELSE r

\* SessionManager.update_agent_status
UpdateAgentStatus(r, sid, agent_id, status, message, ok) ==
    IF sid \in DOMAIN r.sessions
    THEN LET r1 == [r EXCEPT !.sessions[sid].agents[agent_id].status = status,
                             !.sessions[sid].agents[agent_id].message =
                                 IF message # NoMsg THEN message ELSE @]
         IN  Broadcast(r1, sid, AgentUpdate(agent_id, status, message), ok)
    ELSE r

SetReg(r) ==
    /\ sessions' = r.sessions
    /\ websockets' = r.websockets
    /\ received' = r.received
    /\ broadcasts' = r.broadcasts
    /\ sending' = r.sending

Init ==
    /\ sessions = [x \in {} |-> 0]
    /\ websockets = [x \in {} |-> 0]
    /\ received = [c \in Channels |-> <<>>]
    /\ broadcasts = [s \in SessionIds |-> <<>>]
    /\ chan = [c \in Channels |-> [state |-> "new", sid |-> ""]]
    /\ pc = [s \in SessionIds |-> "none"]
    /\ discovery = [s \in SessionIds |-> "none"]
    /\ urls_buckets = [s \in SessionIds |-> EmptyBuckets]
    /\ task = [s \in SessionIds |-> [p \in Platforms |-> "none"]]
    /\ results_raw = [s \in SessionIds |-> [p \in Platforms |-> <<>>]]
    /\ settled = [s \in SessionIds |-> <<>>]
    /\ specialist_results = [s \in SessionIds |-> <<>>]
    /\ final_response = [s \in SessionIds |-> NoResult]
    /\ sweep = [s \in SessionIds |-> 0]
    /\ outcomes = [s \in SessionIds |-> NoOutcomes]
    /\ sending = [s \in SessionIds |-> <<>>]

\* ------------------------------------------------- POST /api/research route
\* start_research: create_session, then create_task(run_research)
StartResearch(sid, q) ==
    /\ sid \notin DOMAIN sessions
    /\ sessions' = sessions @@ (sid :> NewSession(q))
    /\ pc' = [pc EXCEPT ![sid] = "begin"]
    /\ UNCHANGED <<websockets, received, broadcasts, sending, chan, flowVars>>

\* ------------------------------------------------------------ run_research
\* lines 20-32: look the session up, mark it running, search slot running
RunBegin(sid, ok) ==
    /\ pc[sid] = "begin"
    /\ IF sid \notin DOMAIN sessions
       THEN /\ pc' = [pc EXCEPT ![sid] = "finished"]
            /\ UNCHANGED <<sessions, websockets, received, broadcasts, sending>>
       ELSE /\ SetReg(UpdateAgentStatus(
                   [Reg EXCEPT !.sessions[sid].status = "running"],
                   sid, "search", "running", "Searching for relevant URLs...", ok))
            /\ pc' = [pc EXCEPT ![sid] = "setup"]
    /\ UNCHANGED <<chan, flowVars>>

\* lines 35-43 and 71-73: build the flow and announce it; a failure here is
\* caught by the outer handler, which only sets the status
RunSetup(sid, built, ok) ==
    /\ pc[sid] = "setup"
    /\ IF built
       THEN /\ SetReg(Broadcast(Reg, sid, Event("flow_started", "", "", NoMsg, <<sessions[sid].query>>), ok))
            /\ pc' = [pc EXCEPT ![sid] = "kickoff"]
       ELSE /\ sessions' = [sessions EXCEPT ![sid].status = "error"]
            /\ pc' = [pc EXCEPT ![sid] = "finished"]
            /\ UNCHANGED <<websockets, received, broadcasts, sending>>
    /\ outcomes' = [outcomes EXCEPT ![sid].built = IF built THEN "ok" ELSE "raised"]
    /\ UNCHANGED <<chan, discovery, urls_buckets, task, results_raw, settled,
                   specialist_results, final_response, sweep>>

\* ------------------------------------------------ DeepResearchFlow: Discover
\* what crew.kickoff() hands back to collect_urls, or how the stage fails
DiscoverResults ==
    {[type |-> t, parses |-> FALSE, valid |-> FALSE, val |-> EmptyBuckets] :
        t \in {"setup_raises", "kickoff_raises"}}
    \cup {[type |-> "URLBuckets", parses |-> TRUE, valid |-> TRUE, val |-> b] : b \in BucketChoices}
    \cup {[type |-> "str", parses |-> pv[1], valid |-> pv[2], val |-> b] :
            pv \in {<<TRUE, TRUE>>, <<TRUE, FALSE>>, <<FALSE, FALSE>>}, b \in BucketChoices}
    \cup {[type |-> "dict", parses |-> TRUE, valid |-> v, val |-> b] : v \in BOOLEAN, b \in BucketChoices}
    \cup {[type |-> "other", parses |-> FALSE, valid |-> FALSE, val |-> b] : b \in BucketChoices}

\* whether the result is, or can be re-parsed into, a URLBuckets
Coercible(out) ==
    \/ out.type = "URLBuckets"
    \/ out.type = "str" /\ out.parses /\ out.valid
    \/ out.type = "dict" /\ out.valid

\* variant: a string that parses as JSON is used even when it fails validation
CoerceKeepsParsedPayload(out) ==
    CASE out.type = "str" -> IF out.parses THEN out.val ELSE EmptyBuckets
      [] out.type = "dict" -> IF out.valid THEN out.val ELSE EmptyBuckets
      [] out.type = "URLBuckets" -> out.val
      [] OTHER -> EmptyBuckets

\* lines 144-166 and 202-206: coerce the result, fall back to the empty buckets
CoerceURLBuckets(out) ==
    CASE out.type = "str" -> IF out.parses /\ out.valid THEN out.val ELSE EmptyBuckets
      [] out.type = "dict" -> IF out.valid THEN out.val ELSE EmptyBuckets
      [] out.type = "URLBuckets" -> out.val
      [] OTHER -> EmptyBuckets

DiscoveryClass(out) ==
    CASE out.type = "setup_raises" -> "setup_raises"
      [] out.type = "kickoff_raises" -> "kickoff_raises"
      [] Coercible(out) -> "coerced"
      [] OTHER -> "fallback"

\* kickoff_async, start_flow and lines 67-68 of collect_urls
CollectUrlsStart(sid, ok) ==
    /\ pc[sid] = "kickoff"
    /\ SetReg(UpdateAgentStatus(Reg, sid, "search", "running", "Searching for relevant URLs...", ok))
    /\ pc' = [pc EXCEPT ![sid] = "discover"]
    /\ UNCHANGED <<chan, flowVars>>

\* lines 70-218 of collect_urls: one blocking crew.kickoff()
CollectUrls(sid, out, ok) ==
    /\ pc[sid] = "discover"
    /\ discovery' = [discovery EXCEPT ![sid] = DiscoveryClass(out)]
    /\ IF out.type = "setup_raises"
       THEN /\ urls_buckets' = [urls_buckets EXCEPT ![sid] = EmptyBuckets]
            /\ UNCHANGED <<sessions, websockets, received, broadcasts, sending>>
       ELSE /\ urls_buckets' = [urls_buckets EXCEPT ![sid] = CoerceURLBuckets(out)]
            /\ SetReg(UpdateAgentStatus(Reg, sid, "search", "done", "URLs collected.", ok))
    /\ pc' = [pc EXCEPT ![sid] = "dispatch"]
    /\ outcomes' = [outcomes EXCEPT ![sid].buckets = urls_buckets'[sid]]
    /\ UNCHANGED <<chan, task, results_raw, settled, specialist_results, final_response, sweep>>

\* ------------------------------------------------- DeepResearchFlow: Extract
SpecialistOutput(platform, url, summary, metadata) ==
    [platform |-> platform, url |-> url, summary |-> summary, metadata |-> metadata]

Returned(outs) == [exc |-> FALSE, name |-> "", out |-> outs]
Raised(name) == [exc |-> TRUE, name |-> name, out |-> <<>>]

Range(f) == {f[i] : i \in DOMAIN f}
IndexOf(p) == CHOOSE i \in 1..Len(PlatformOrder) : PlatformOrder[i] = p
OtherPlatform(p) == PlatformOrder[(IndexOf(p) % Len(PlatformOrder)) + 1]

\* what the specialist crew may hand back for platform p given urls
ExecOutputs(p, urls) ==
    IF urls = <<>> THEN {}
    ELSE {SpecialistOutput(p, urls[1], "summary", "{}"),
          SpecialistOutput(OtherPlatform(p), FabricatedUrl, "summary", "{}")}

\* variant: a branch is launched for every platform, empty bucket or not
DispatchLaunchesAll(sid) ==
    /\ pc[sid] = "dispatch"
    /\ task' = [task EXCEPT ![sid] = [p \in Platforms |-> "pending"]]
    /\ results_raw' = [results_raw EXCEPT ![sid] = [p \in Platforms |-> Returned(<<>>)]]
    /\ pc' = [pc EXCEPT ![sid] = "gather"]
    /\ UNCHANGED <<sessions, websockets, received, broadcasts, sending, chan, discovery,
                   urls_buckets, settled, specialist_results, final_response, sweep, outcomes>>

\* lines 321-346: one _process_platform coroutine per bucket, in field order;
\* the coroutine of an empty bucket returns [] on its first step (229-231)
DispatchToSpecialists(sid) ==
    /\ pc[sid] = "dispatch"
    /\ task' = [task EXCEPT ![sid] =
                  [p \in Platforms |-> IF urls_buckets[sid][p] = <<>> THEN "skipped" ELSE "pending"]]
    /\ results_raw' = [results_raw EXCEPT ![sid] = [p \in Platforms |-> Returned(<<>>)]]
    /\ pc' = [pc EXCEPT ![sid] = "gather"]
    /\ UNCHANGED <<sessions, websockets, received, broadcasts, sending, chan, discovery,
                   urls_buckets, settled, specialist_results, final_response, sweep, outcomes>>

\* f"Analyzing {len(urls)} URLs..."
AnalyzingMsg(urls) ==
    CASE Len(urls) = 1 -> "Analyzing 1 URLs..."
      [] Len(urls) = 2 -> "Analyzing 2 URLs..."
      [] OTHER -> "Analyzing N URLs..."

\* _process_platform lines 233-304: slot running, open the tool adapter,
\* start the crew; tasks take their first step in creation order
BranchStart(sid, p, adapter, ok) ==
    /\ pc[sid] = "gather"
    /\ task[sid][p] = "pending"
    /\ \A i \in 1..(IndexOf(p) - 1) : task[sid][PlatformOrder[i]] # "pending"
    /\ SetReg(UpdateAgentStatus(Reg, sid, p, "running", AnalyzingMsg(urls_buckets[sid][p]), ok))
    /\ IF adapter
       THEN /\ task' = [task EXCEPT ![sid][p] = "executing"]
            /\ UNCHANGED <<results_raw, settled, outcomes>>
       ELSE /\ task' = [task EXCEPT ![sid][p] = "raised"]
            /\ results_raw' = [results_raw EXCEPT ![sid][p] = Raised("KeyError")]
            /\ settled' = [settled EXCEPT ![sid] = Append(@, p)]
            /\ outcomes' = [outcomes EXCEPT ![sid].failed = @ \cup {p}]
    /\ UNCHANGED <<chan, pc, discovery, urls_buckets, specialist_results, final_response, sweep>>

\* _process_platform lines 304-315: the crew returned
BranchReturn(sid, p, o, ok) ==
    /\ pc[sid] = "gather"
    /\ task[sid][p] = "executing"
    /\ SetReg(UpdateAgentStatus(Reg, sid, p, "done", "Analysis complete.", ok))
    /\ task' = [task EXCEPT ![sid][p] = "returned"]
    /\ results_raw' = [results_raw EXCEPT ![sid][p] = Returned(<<o>>)]
    /\ settled' = [settled EXCEPT ![sid] = Append(@, p)]
    /\ UNCHANGED <<chan, pc, discovery, urls_buckets, specialist_results, final_response, sweep, outcomes>>

\* variant: a branch whose crew raised is started again
BranchRaiseRetries(sid, p) ==
    /\ pc[sid] = "gather"
    /\ task[sid][p] = "executing"
    /\ task' = [task EXCEPT ![sid][p] = "pending"]
    /\ UNCHANGED <<sessions, websockets, received, broadcasts, sending, chan, pc, discovery,
                   urls_buckets, results_raw, settled, specialist_results, final_response,
                   sweep, outcomes>>

\* _process_platform lines 317-319: the crew raised, the branch re-raises
BranchRaise(sid, p) ==
    /\ pc[sid] = "gather"
    /\ task[sid][p] = "executing"
    /\ task' = [task EXCEPT ![sid][p] = "raised"]
    /\ results_raw' = [results_raw EXCEPT ![sid][p] = Raised("Exception")]
    /\ settled' = [settled EXCEPT ![sid] = Append(@, p)]
    /\ outcomes' = [outcomes EXCEPT ![sid].failed = @ \cup {p}]
    /\ UNCHANGED <<sessions, websockets, received, broadcasts, sending, chan, pc, discovery,
                   urls_buckets, specialist_results, final_response, sweep>>

\* f"Error: {type(result).__name__}"
ErrorSummary(name) == IF name = "KeyError" THEN "Error: KeyError" ELSE "Error: Exception"

\* variant: the placeholder record carries no url
SentinelWithoutUrl(p, name) ==
    SpecialistOutput(p, "", ErrorSummary(name), "detail")

\* lines 355-362: the record substituted for a failed branch
Sentinel(p, name) ==
    SpecialistOutput(p, SentinelUrl, ErrorSummary(name), "detail")

\* variant: gather without return_exceptions gives up at the first failure
GatherFailFast(t) ==
    \/ \E p \in Platforms : t[p] = "raised"
    \/ \A p \in Platforms : t[p] \in {"skipped", "returned", "raised"}

\* variant: the join returns as soon as one launched branch has settled
GatherFirstCompleted(t) ==
    \/ \E p \in Platforms : t[p] \in {"returned", "raised"}
    \/ \A p \in Platforms : t[p] \in {"skipped", "returned", "raised"}

\* asyncio.gather(*tasks, return_exceptions=True) returns once every task is done
GatherDone(t) ==
    \A p \in Platforms : t[p] \in {"skipped", "returned", "raised"}

RECURSIVE CollectResults(_, _)
\* lines 349-364: results_raw in task order, a sentinel for each exception
CollectResults(raw, i) ==
    IF i > Len(PlatformOrder) THEN <<>>
    ELSE LET p == PlatformOrder[i]
         IN  (IF raw[p].exc THEN <<Sentinel(p, raw[p].name)>> ELSE raw[p].out)
             \o CollectResults(raw, i + 1)

RECURSIVE CollectSuccessful(_, _)
CollectSuccessful(raw, i) ==
    IF i > Len(PlatformOrder) THEN <<>>
    ELSE raw[PlatformOrder[i]].out \o CollectSuccessful(raw, i + 1)

\* variant: failed branches are dropped instead of replaced
FanInDropFailed(raw, order) ==
    CollectSuccessful(raw, 1)

RECURSIVE CollectInOrder(_, _, _)
CollectInOrder(raw, order, i) ==
    IF i > Len(order) THEN <<>>
    ELSE LET p == order[i]
         IN  (IF raw[p].exc THEN <<Sentinel(p, raw[p].name)>> ELSE raw[p].out)
             \o CollectInOrder(raw, order, i + 1)

\* variant: results are taken as the branches complete
FanInByCompletion(raw, order) ==
    CollectInOrder(raw, order, 1)

\* the result list built from gather's output; order is the completion order,
\* which gather does not use
FanInResults(raw, order) ==
    CollectResults(raw, 1)

\* lines 347-394: the join and the result list
FanIn(sid) ==
    /\ pc[sid] = "gather"
    /\ GatherDone(task[sid])
    /\ specialist_results' = [specialist_results EXCEPT ![sid] = FanInResults(results_raw[sid], settled[sid])]
    /\ pc' = [pc EXCEPT ![sid] = "synthesize"]
    /\ UNCHANGED <<sessions, websockets, received, broadcasts, sending, chan, discovery,
                   urls_buckets, task, results_raw, settled, final_response, sweep, outcomes>>

\* --------------------------------------------- DeepResearchFlow: Synthesize
\* synthesize_response lines 399-400; dispatch_to_specialists has returned,
\* of its locals only the result list is passed on
SynthStart(sid, ok) ==
    /\ pc[sid] = "synthesize"
    /\ SetReg(UpdateAgentStatus(Reg, sid, "synthesis", "running", "Synthesizing research report...", ok))
    /\ pc' = [pc EXCEPT ![sid] = "synth_call"]
    /\ task' = [task EXCEPT ![sid] = [p \in Platforms |-> "none"]]
    /\ results_raw' = [results_raw EXCEPT ![sid] = [p \in Platforms |-> <<>>]]
    /\ settled' = [settled EXCEPT ![sid] = <<>>]
    /\ urls_buckets' = [urls_buckets EXCEPT ![sid] = EmptyBuckets]
    /\ UNCHANGED <<chan, discovery, specialist_results, final_response, sweep, outcomes>>

\* synthesize_response lines 402-542: the crew returned the report; the
\* method returns and its inputs are gone
SynthReturn(sid, text) ==
    /\ pc[sid] = "synth_call"
    /\ final_response' = [final_response EXCEPT ![sid] = text]
    /\ sweep' = [sweep EXCEPT ![sid] = 1]
    /\ pc' = [pc EXCEPT ![sid] = "sweep"]
    /\ specialist_results' = [specialist_results EXCEPT ![sid] = <<>>]
    /\ outcomes' = [outcomes EXCEPT ![sid].synthesis = "returned"]
    /\ UNCHANGED <<sessions, websockets, received, broadcasts, sending, chan, discovery,
                   urls_buckets, task, results_raw, settled>>

RECURSIVE UrlsOf(_, _, _)
\* synthesize_response lines 415-429: the urls of the records that name
\* platform p, in list order, the placeholder url and empty urls left out
UrlsOf(results, p, i) ==
    IF i > Len(results) THEN <<>>
    ELSE (IF results[i].platform = p /\ results[i].url # "" /\ results[i].url # SentinelUrl
          THEN <<results[i].url>> ELSE <<>>)
         \o UrlsOf(results, p, i + 1)

\* lines 406-412: urls_by_platform
UrlsByPlatform(results) == [p \in Platforms |-> UrlsOf(results, p, 1)]

Line(kind, text) == [kind |-> kind, text |-> text]

RECURSIVE PlatformLines(_, _)
\* lines 445-450: a sub-heading and one line per url for each platform that
\* has urls, in the order of the dict
PlatformLines(by, i) ==
    IF i > Len(PlatformOrder) THEN <<>>
    ELSE LET p == PlatformOrder[i]
         IN  (IF by[p] # <<>>
              THEN <<Line("platform", p)>> \o [k \in 1..Len(by[p]) |-> Line("url", by[p][k])]
              ELSE <<>>)
             \o PlatformLines(by, i + 1)

\* lines 443-454: urls_section as the lines of the task description
UrlsSection(by) ==
    <<Line("heading", "## Source URLs by Platform:")>>
    \o PlatformLines(by, 1)
    \o (IF \A p \in Platforms : by[p] = <<>>
        THEN <<Line("note", "(No URLs were found from any platform.)")>>
        ELSE <<>>)

\* variant: the failure handler also marks the synthesis slot
FlowErrorMarksSlot(r, sid, ok) ==
    Broadcast([r EXCEPT !.sessions[sid].status = "error",
                        !.sessions[sid].agents["synthesis"].status = "error"], sid,
              Event("error", "", "", NoMsg, <<"exception">>), ok)

\* variant: the failure handler stores the exception text as the result
FlowErrorStoresMessage(r, sid, ok) ==
    Broadcast([r EXCEPT !.sessions[sid].status = "error",
                        !.sessions[sid].result = "exception"], sid,
              Event("error", "", "", NoMsg, <<"exception">>), ok)

\* variant: the failure handler puts the session back to pending for a retry
FlowErrorRequeues(r, sid, ok) ==
    Broadcast([r EXCEPT !.sessions[sid].status = "pending"], sid,
              Event("error", "", "", NoMsg, <<"exception">>), ok)

\* variant: after announcing the failure the handler also updates the slot
FlowErrorThenUpdate(r, sid, ok) ==
    UpdateAgentStatus(
        Broadcast([r EXCEPT !.sessions[sid].status = "error"], sid,
                  Event("error", "", "", NoMsg, <<"exception">>), ok),
        sid, "synthesis", "error", NoMsg, ok)

\* run_research lines 63-69: what the handler of a flow failure does
FlowError(r, sid, ok) ==
    Broadcast([r EXCEPT !.sessions[sid].status = "error"], sid,
              Event("error", "", "", NoMsg, <<"exception">>), ok)

\* the crew raised in synthesize_response; kickoff_async raises into run_research
SynthRaise(sid, ok) ==
    /\ pc[sid] = "synth_call"
    /\ SetReg(FlowError(Reg, sid, ok))
    /\ pc' = [pc EXCEPT ![sid] = "finished"]
    /\ specialist_results' = [specialist_results EXCEPT ![sid] = <<>>]
    /\ outcomes' = [outcomes EXCEPT ![sid].synthesis = "raised"]
    /\ UNCHANGED <<chan, discovery, urls_buckets, task, results_raw, settled, final_response, sweep>>

\* ------------------------------------------------- run_research: Done stage
\* lines 50-51: one iteration of the closing loop
SweepStep(sid, ok) ==
    /\ pc[sid] = "sweep"
    /\ SetReg(UpdateAgentStatus(Reg, sid, AgentIds[sweep[sid]], "done", NoMsg, ok))
    /\ sweep' = [sweep EXCEPT ![sid] = @ + 1]
    /\ pc' = [pc EXCEPT ![sid] = IF sweep[sid] = Len(AgentIds) THEN "complete" ELSE "sweep"]
    /\ UNCHANGED <<chan, discovery, urls_buckets, task, results_raw, settled,
                   specialist_results, final_response, outcomes>>

\* variant: the result is read under a key the flow does not return
StoreResultDefault(r, sid, text, ok) ==
    LET r1 == [r EXCEPT !.sessions[sid].result = "No result returned",
                        !.sessions[sid].status = "completed"]
    IN  Broadcast(r1, sid, Event("research_complete", "", "", NoMsg, <<"No result returned">>), ok)

\* variant: the result is stored and announced, the status is left for later
StoreResultBeforeStatus(r, sid, text, ok) ==
    LET r1 == [r EXCEPT !.sessions[sid].result = text]
    IN  Broadcast(r1, sid, Event("research_complete", "", "", NoMsg, <<text>>), ok)

\* lines 54-60: what follows the closing loop
StoreResult(r, sid, text, ok) ==
    LET r1 == [r EXCEPT !.sessions[sid].result = text, !.sessions[sid].status = "completed"]
    IN  Broadcast(r1, sid, Event("research_complete", "", "", NoMsg, <<text>>), ok)

Complete(sid, ok) ==
    /\ pc[sid] = "complete"
    /\ SetReg(StoreResult(Reg, sid, final_response[sid], ok))
    /\ pc' = [pc EXCEPT ![sid] = "finished"]
    /\ UNCHANGED <<chan, flowVars>>

\* -------------------------------------------------------- websocket_endpoint
\* variant: the replay shows the slots as create_session made them
SnapshotAtCreation(agents) ==
    [i \in 1..(2 * Len(AgentIds)) |-> IF i % 2 = 1 THEN "waiting" ELSE NoMsg]

Snapshot(agents) == [i \in 1..(2 * Len(AgentIds)) |->
                        IF i % 2 = 1 THEN agents[AgentIds[(i + 1) \div 2]].status
                        ELSE agents[AgentIds[i \div 2]].message]

\* variant: register_websocket keeps a binding that is already there
WsConnectKeepsFirst(c, sid, ok) ==
    /\ chan[c].state = "new"
    /\ websockets' = IF sid \in DOMAIN websockets THEN websockets ELSE websockets @@ (sid :> c)
    /\ chan' = [chan EXCEPT ![c] = [state |-> "open", sid |-> sid]]
    /\ IF sid \in DOMAIN sessions
       THEN received' = [received EXCEPT ![c] =
                Append(@, Event("initial_state", "", "", NoMsg, Snapshot(sessions[sid].agents)))]
       ELSE UNCHANGED received
    /\ UNCHANGED <<sessions, broadcasts, sending, pc, flowVars>>

\* lines 18-33: accept, register, replay the slots; a failed send ends the
\* handler, whose finally clause unregisters
WsConnect(c, sid, ok) ==
    /\ chan[c].state = "new"
    /\ IF sid \in DOMAIN sessions
       THEN IF ok
            THEN /\ websockets' = [x \in DOMAIN websockets \cup {sid} |-> IF x = sid THEN c ELSE websockets[x]]
                 /\ received' = [received EXCEPT ![c] =
                        Append(@, Event("initial_state", "", "", NoMsg, Snapshot(sessions[sid].agents)))]
                 /\ chan' = [chan EXCEPT ![c] = [state |-> "open", sid |-> sid]]
            ELSE /\ websockets' = Remove(websockets, sid)
                 /\ chan' = [chan EXCEPT ![c] = [state |-> "closed", sid |-> sid]]
                 /\ UNCHANGED received
       ELSE /\ websockets' = [x \in DOMAIN websockets \cup {sid} |-> IF x = sid THEN c ELSE websockets[x]]
            /\ chan' = [chan EXCEPT ![c] = [state |-> "open", sid |-> sid]]
            /\ UNCHANGED received
    /\ UNCHANGED <<sessions, broadcasts, sending, pc, flowVars>>

\* variant: the handler ends without unregistering
WsCloseKeepsBinding(c) ==
    /\ chan[c].state = "open"
    /\ chan' = [chan EXCEPT ![c].state = "closed"]
    /\ received' = [received EXCEPT ![c] = <<>>]
    /\ UNCHANGED <<sessions, websockets, broadcasts, sending, pc, flowVars>>

\* lines 47-52: disconnect or error in the receive loop, then unregister_websocket
WsClose(c) ==
    /\ chan[c].state = "open"
    /\ websockets' = Remove(websockets, chan[c].sid)
    /\ chan' = [chan EXCEPT ![c].state = "closed"]
    /\ received' = [received EXCEPT ![c] = <<>>]
    /\ UNCHANGED <<sessions, broadcasts, sending, pc, flowVars>>

Next ==
    \/ \E sid \in SessionIds, q \in Queries : StartResearch(sid, q)
    \/ \E sid \in SessionIds, ok \in BOOLEAN : RunBegin(sid, ok)
    \/ \E sid \in SessionIds, built \in BOOLEAN, ok \in BOOLEAN : RunSetup(sid, built, ok)
    \/ \E sid \in SessionIds, ok \in BOOLEAN : CollectUrlsStart(sid, ok)
    \/ \E sid \in SessionIds, out \in DiscoverResults, ok \in BOOLEAN : CollectUrls(sid, out, ok)
    \/ \E sid \in SessionIds : DispatchToSpecialists(sid)
    \/ \E sid \in SessionIds, p \in Platforms, adapter \in BOOLEAN, ok \in BOOLEAN : BranchStart(sid, p, adapter, ok)
    \/ \E sid \in SessionIds, p \in Platforms, ok \in BOOLEAN :
          \E o \in ExecOutputs(p, urls_buckets[sid][p]) : BranchReturn(sid, p, o, ok)
    \/ \E sid \in SessionIds, p \in Platforms : BranchRaise(sid, p)
    \/ \E sid \in SessionIds : FanIn(sid)
    \/ \E sid \in SessionIds, ok \in BOOLEAN : SynthStart(sid, ok)
    \/ \E sid \in SessionIds, text \in ReportTexts : SynthReturn(sid, text)
    \/ \E sid \in SessionIds, ok \in BOOLEAN : SynthRaise(sid, ok)
    \/ \E sid \in SessionIds, ok \in BOOLEAN : SweepStep(sid, ok)
    \/ \E sid \in SessionIds, ok \in BOOLEAN : Complete(sid, ok)
    \/ \E c \in Channels, sid \in SessionIds, ok \in BOOLEAN : WsConnect(c, sid, ok)
    \/ \E c \in Channels : WsClose(c)

Spec == Init /\ [][Next]_vars

\* ------------------------------------------- two observers of one session
\* a second connection to /ws/research/{session_id}; the run is kept to one
\* platform so that the channels' interleavings are explored in full
TwoChannels == {"A", "B"}

TwoChannelDiscover ==
    {[type |-> "kickoff_raises", parses |-> FALSE, valid |-> FALSE, val |-> EmptyBuckets],
     [type |-> "URLBuckets", parses |-> TRUE, valid |-> TRUE,
      val |-> [EmptyBuckets EXCEPT !["web"] = <<"u1">>]]}

InitTwo ==
    /\ sessions = [x \in {} |-> 0]
    /\ websockets = [x \in {} |-> 0]
    /\ received = [c \in TwoChannels |-> <<>>]
    /\ broadcasts = [s \in SessionIds |-> <<>>]
    /\ chan = [c \in TwoChannels |-> [state |-> "new", sid |-> ""]]
    /\ pc = [s \in SessionIds |-> "none"]
    /\ discovery = [s \in SessionIds |-> "none"]
    /\ urls_buckets = [s \in SessionIds |-> EmptyBuckets]
    /\ task = [s \in SessionIds |-> [p \in Platforms |-> "none"]]
    /\ results_raw = [s \in SessionIds |-> [p \in Platforms |-> <<>>]]
    /\ settled = [s \in SessionIds |-> <<>>]
    /\ specialist_results = [s \in SessionIds |-> <<>>]
    /\ final_response = [s \in SessionIds |-> NoResult]
    /\ sweep = [s \in SessionIds |-> 0]
    /\ outcomes = [s \in SessionIds |-> NoOutcomes]
    /\ sending = [s \in SessionIds |-> <<>>]

NextTwo ==
    \/ \E sid \in SessionIds, q \in Queries : StartResearch(sid, q)
    \/ \E sid \in SessionIds, ok \in BOOLEAN : RunBegin(sid, ok)
    \/ \E sid \in SessionIds, ok \in BOOLEAN : RunSetup(sid, TRUE, ok)
    \/ \E sid \in SessionIds, ok \in BOOLEAN : CollectUrlsStart(sid, ok)
    \/ \E sid \in SessionIds, out \in TwoChannelDiscover, ok \in BOOLEAN : CollectUrls(sid, out, ok)
    \/ \E sid \in SessionIds : DispatchToSpecialists(sid)
    \/ \E sid \in SessionIds, p \in Platforms, ok \in BOOLEAN : BranchStart(sid, p, TRUE, ok)
    \/ \E sid \in SessionIds, p \in Platforms, ok \in BOOLEAN :
          \E o \in ExecOutputs(p, urls_buckets[sid][p]) : BranchReturn(sid, p, o, ok)
    \/ \E sid \in SessionIds, p \in Platforms : BranchRaise(sid, p)
    \/ \E sid \in SessionIds : FanIn(sid)
    \/ \E sid \in SessionIds, ok \in BOOLEAN : SynthStart(sid, ok)
    \/ \E sid \in SessionIds, text \in ReportTexts : SynthReturn(sid, text)
    \/ \E sid \in SessionIds, ok \in BOOLEAN : SynthRaise(sid, ok)
    \/ \E sid \in SessionIds, ok \in BOOLEAN : SweepStep(sid, ok)
    \/ \E sid \in SessionIds, ok \in BOOLEAN : Complete(sid, ok)
    \/ \E c \in TwoChannels, sid \in SessionIds, ok \in BOOLEAN : WsConnect(c, sid, ok)
    \/ \E c \in TwoChannels : WsClose(c)

TwoChannelSpec == InitTwo /\ [][NextTwo]_vars

\* ------------------------------------ sends that suspend the pipeline
\* two connections whose sends suspend the caller; the run is kept to one
\* platform as above. While a send of the run is pending the run takes no
\* step; connections attach and close meanwhile.
InitInFlight ==
    /\ sessions = [x \in {} |-> 0]
    /\ websockets = [x \in {} |-> 0]
    /\ received = [c \in SlowChannels |-> <<>>]
    /\ broadcasts = [s \in SessionIds |-> <<>>]
    /\ chan = [c \in SlowChannels |-> [state |-> "new", sid |-> ""]]
    /\ pc = [s \in SessionIds |-> "none"]
    /\ discovery = [s \in SessionIds |-> "none"]
    /\ urls_buckets = [s \in SessionIds |-> EmptyBuckets]
    /\ task = [s \in SessionIds |-> [p \in Platforms |-> "none"]]
    /\ results_raw = [s \in SessionIds |-> [p \in Platforms |-> <<>>]]
    /\ settled = [s \in SessionIds |-> <<>>]
    /\ specialist_results = [s \in SessionIds |-> <<>>]
    /\ final_response = [s \in SessionIds |-> NoResult]
    /\ sweep = [s \in SessionIds |-> 0]
    /\ outcomes = [s \in SessionIds |-> NoOutcomes]
    /\ sending = [s \in SessionIds |-> <<>>]

\* the caller of broadcast is not suspended in a send
Idle(sid) == sending[sid] = <<>>

\* session.py lines 70-77: the pending send_json returns (ok) or raises; on
\* a raise the binding of the session is deleted, whichever connection holds
\* it by then. Nothing is delivered to a connection whose handler has ended.
SendEnd(sid, ok) ==
    /\ sending[sid] # <<>>
    /\ LET c == sending[sid][1].c
           data == sending[sid][1].data
       IN  IF ok
           THEN /\ received' = IF chan[c].state = "open"
                               THEN [received EXCEPT ![c] = Append(@, data)]
                               ELSE received
                /\ UNCHANGED websockets
           ELSE /\ websockets' = Remove(websockets, sid)
                /\ received' = [received EXCEPT ![c] = <<>>]
    /\ sending' = [sending EXCEPT ![sid] = <<>>]
    /\ UNCHANGED <<sessions, broadcasts, chan, pc, flowVars>>

NextInFlight ==
    \/ \E sid \in SessionIds, q \in Queries : StartResearch(sid, q)
    \/ \E sid \in SessionIds : Idle(sid) /\ RunBegin(sid, TRUE)
    \/ \E sid \in SessionIds : Idle(sid) /\ RunSetup(sid, TRUE, TRUE)
    \/ \E sid \in SessionIds : Idle(sid) /\ CollectUrlsStart(sid, TRUE)
    \/ \E sid \in SessionIds, out \in TwoChannelDiscover : Idle(sid) /\ CollectUrls(sid, out, TRUE)
    \/ \E sid \in SessionIds : Idle(sid) /\ DispatchToSpecialists(sid)
    \/ \E sid \in SessionIds, p \in Platforms : Idle(sid) /\ BranchStart(sid, p, TRUE, TRUE)
    \/ \E sid \in SessionIds, p \in Platforms :
          \E o \in ExecOutputs(p, urls_buckets[sid][p]) : Idle(sid) /\ BranchReturn(sid, p, o, TRUE)
    \/ \E sid \in SessionIds, p \in Platforms : Idle(sid) /\ BranchRaise(sid, p)
    \/ \E sid \in SessionIds : Idle(sid) /\ FanIn(sid)
    \/ \E sid \in SessionIds : Idle(sid) /\ SynthStart(sid, TRUE)
    \/ \E sid \in SessionIds, text \in ReportTexts : Idle(sid) /\ SynthReturn(sid, text)
    \/ \E sid \in SessionIds : Idle(sid) /\ SynthRaise(sid, TRUE)
    \/ \E sid \in SessionIds : Idle(sid) /\ SweepStep(sid, TRUE)
    \/ \E sid \in SessionIds : Idle(sid) /\ Complete(sid, TRUE)
    \/ \E sid \in SessionIds, ok \in BOOLEAN : SendEnd(sid, ok)
    \/ \E c \in SlowChannels, sid \in SessionIds, ok \in BOOLEAN : WsConnect(c, sid, ok)
    \/ \E c \in SlowChannels : WsClose(c)

InFlightSpec == InitInFlight /\ [][NextInFlight]_vars

\* ------------------------------------------------ the registry on its own
\* SessionManager called directly, with ids of sessions that exist and of
\* sessions that do not; no run is started. The two logs hold the calls and
\* deliveries of the last update only.
RegIds == {"s1", "s2"}
RegQueries == {"q", "r"}
RegAgents == {"search", "web"}
RegStatuses == {"running", "done"}
RegMessages == {NoMsg, "note"}

InitReg ==
    /\ sessions = [x \in {} |-> 0]
    /\ websockets = [x \in {} |-> 0]
    /\ received = [c \in Channels |-> <<>>]
    /\ broadcasts = [s \in RegIds |-> <<>>]
    /\ chan = [c \in Channels |-> [state |-> "new", sid |-> ""]]
    /\ pc = [s \in SessionIds |-> "none"]
    /\ discovery = [s \in SessionIds |-> "none"]
    /\ urls_buckets = [s \in SessionIds |-> EmptyBuckets]
    /\ task = [s \in SessionIds |-> [p \in Platforms |-> "none"]]
    /\ results_raw = [s \in SessionIds |-> [p \in Platforms |-> <<>>]]
    /\ settled = [s \in SessionIds |-> <<>>]
    /\ specialist_results = [s \in SessionIds |-> <<>>]
    /\ final_response = [s \in SessionIds |-> NoResult]
    /\ sweep = [s \in SessionIds |-> 0]
    /\ outcomes = [s \in SessionIds |-> NoOutcomes]
    /\ sending = [s \in RegIds |-> <<>>]

\* create_session: uuid4 gives an id no session has
CreateSession(sid, q) ==
    /\ sid \notin DOMAIN sessions
    /\ sessions' = sessions @@ (sid :> NewSession(q))
    /\ UNCHANGED <<websockets, received, broadcasts, sending, chan, pc, flowVars>>

ClearLogs(r) ==
    [r EXCEPT !.received = [c \in DOMAIN r.received |-> <<>>],
              !.broadcasts = [s \in DOMAIN r.broadcasts |-> <<>>]]

\* one call of update_agent_status
RegistryUpdate(sid, agent_id, status, message, ok) ==
    /\ SetReg(UpdateAgentStatus(ClearLogs(Reg), sid, agent_id, status, message, ok))
    /\ UNCHANGED <<chan, pc, flowVars>>

NextReg ==
    \/ \E sid \in RegIds, q \in RegQueries : CreateSession(sid, q)
    \/ \E sid \in RegIds, a \in RegAgents, st \in RegStatuses, m \in RegMessages, ok \in BOOLEAN :
          RegistryUpdate(sid, a, st, m, ok)
    \/ \E c \in Channels, sid \in RegIds, ok \in BOOLEAN : WsConnect(c, sid, ok)
    \/ \E c \in Channels : WsClose(c)

RegistrySpec == InitReg /\ [][NextReg]_vars

\* ------------------------------------------------ two runs side by side
\* two sessions started by two requests, each run a task of the one event
\* loop, and one connection to the path of each session; the runs are kept
\* to one platform as above
PairPath == [c \in TwoChannels |-> IF c = "A" THEN "s1" ELSE "s2"]

InitPair ==
    /\ sessions = [x \in {} |-> 0]
    /\ websockets = [x \in {} |-> 0]
    /\ received = [c \in TwoChannels |-> <<>>]
    /\ broadcasts = [s \in RegIds |-> <<>>]
    /\ chan = [c \in TwoChannels |-> [state |-> "new", sid |-> ""]]
    /\ pc = [s \in RegIds |-> "none"]
    /\ discovery = [s \in RegIds |-> "none"]
    /\ urls_buckets = [s \in RegIds |-> EmptyBuckets]
    /\ task = [s \in RegIds |-> [p \in Platforms |-> "none"]]
    /\ results_raw = [s \in RegIds |-> [p \in Platforms |-> <<>>]]
    /\ settled = [s \in RegIds |-> <<>>]
    /\ specialist_results = [s \in RegIds |-> <<>>]
    /\ final_response = [s \in RegIds |-> NoResult]
    /\ sweep = [s \in RegIds |-> 0]
    /\ outcomes = [s \in RegIds |-> NoOutcomes]
    /\ sending = [s \in RegIds |-> <<>>]

NextPair ==
    \/ \E sid \in RegIds, q \in Queries : StartResearch(sid, q)
    \/ \E sid \in RegIds, ok \in BOOLEAN : RunBegin(sid, ok)
    \/ \E sid \in RegIds, ok \in BOOLEAN : RunSetup(sid, TRUE, ok)
    \/ \E sid \in RegIds, ok \in BOOLEAN : CollectUrlsStart(sid, ok)
    \/ \E sid \in RegIds, out \in TwoChannelDiscover, ok \in BOOLEAN : CollectUrls(sid, out, ok)
    \/ \E sid \in RegIds : DispatchToSpecialists(sid)
    \/ \E sid \in RegIds, p \in Platforms, ok \in BOOLEAN : BranchStart(sid, p, TRUE, ok)
    \/ \E sid \in RegIds, p \in Platforms, ok \in BOOLEAN :
          \E o \in ExecOutputs(p, urls_buckets[sid][p]) : BranchReturn(sid, p, o, ok)
    \/ \E sid \in RegIds, p \in Platforms : BranchRaise(sid, p)
    \/ \E sid \in RegIds : FanIn(sid)
    \/ \E sid \in RegIds, ok \in BOOLEAN : SynthStart(sid, ok)
    \/ \E sid \in RegIds, text \in ReportTexts : SynthReturn(sid, text)
    \/ \E sid \in RegIds, ok \in BOOLEAN : SynthRaise(sid, ok)
    \/ \E sid \in RegIds, ok \in BOOLEAN : SweepStep(sid, ok)
    \/ \E sid \in RegIds, ok \in BOOLEAN : Complete(sid, ok)
    \/ \E c \in TwoChannels, ok \in BOOLEAN : WsConnect(c, PairPath[c], ok)
    \/ \E c \in TwoChannels : WsClose(c)

PairSpec == InitPair /\ [][NextPair]_vars

\* ------------------------------------------------- Discover on its own
\* the run up to the hand-over of the buckets, with search results that
\* repeat a URL or list many
WideUrlSeqs == {<<>>, <<"u1">>, <<"u1", "u1">>, <<"u1", "u2">>, <<"u1", "u2", "u3", "u4">>}

WideBuckets ==
    {[p \in Platforms |-> IF p = "x" THEN sx ELSE IF p = "web" THEN sw ELSE <<>>] :
        sx \in WideUrlSeqs, sw \in WideUrlSeqs}

WideDiscoverResults ==
    {[type |-> "kickoff_raises", parses |-> FALSE, valid |-> FALSE, val |-> EmptyBuckets]}
    \cup {[type |-> t, parses |-> TRUE, valid |-> TRUE, val |-> b] :
            t \in {"URLBuckets", "str", "dict"}, b \in WideBuckets}

NextDiscover ==
    \/ \E sid \in SessionIds, q \in Queries : StartResearch(sid, q)
    \/ \E sid \in SessionIds, ok \in BOOLEAN : RunBegin(sid, ok)
    \/ \E sid \in SessionIds, ok \in BOOLEAN : RunSetup(sid, TRUE, ok)
    \/ \E sid \in SessionIds, ok \in BOOLEAN : CollectUrlsStart(sid, ok)
    \/ \E sid \in SessionIds, out \in WideDiscoverResults, ok \in BOOLEAN : CollectUrls(sid, out, ok)
    \/ \E sid \in SessionIds : DispatchToSpecialists(sid)
    \/ \E c \in Channels, sid \in SessionIds, ok \in BOOLEAN : WsConnect(c, sid, ok)
    \/ \E c \in Channels : WsClose(c)

DiscoverSpec == Init /\ [][NextDiscover]_vars

\* ------------------------------------------------------------- scheduling
\* the steps of the task running run_research for sid
PipelineStep(sid) ==
    \/ \E ok \in BOOLEAN : RunBegin(sid, ok)
    \/ \E built \in BOOLEAN, ok \in BOOLEAN : RunSetup(sid, built, ok)
    \/ \E ok \in BOOLEAN : CollectUrlsStart(sid, ok)
    \/ \E out \in DiscoverResults, ok \in BOOLEAN : CollectUrls(sid, out, ok)
    \/ DispatchToSpecialists(sid)
    \/ \E p \in Platforms, adapter \in BOOLEAN, ok \in BOOLEAN : BranchStart(sid, p, adapter, ok)
    \/ \E p \in Platforms, ok \in BOOLEAN :
          \E o \in ExecOutputs(p, urls_buckets[sid][p]) : BranchReturn(sid, p, o, ok)
    \/ \E p \in Platforms : BranchRaise(sid, p)
    \/ FanIn(sid)
    \/ \E ok \in BOOLEAN : SynthStart(sid, ok)
    \/ \E text \in ReportTexts : SynthReturn(sid, text)
    \/ \E ok \in BOOLEAN : SynthRaise(sid, ok)
    \/ \E ok \in BOOLEAN : SweepStep(sid, ok)
    \/ \E ok \in BOOLEAN : Complete(sid, ok)

\* the steps that end without a call of broadcast
SendFreeStep(sid) ==
    \/ DispatchToSpecialists(sid)
    \/ \E p \in Platforms : BranchRaise(sid, p)
    \/ FanIn(sid)
    \/ \E text \in ReportTexts : SynthReturn(sid, text)

\* a step that broadcasts resumes when the awaited send_json (session.py:70)
\* returns or raises; with no channel bound broadcast does not await
AwaitsObserver(sid) == sid \in DOMAIN websockets

\* every awaited call of the run, crew or send, eventually returns or raises
LiveSpec == Spec /\ \A sid \in SessionIds : WF_vars(PipelineStep(sid))

\* every crew call eventually returns or raises; a send on a bound channel
\* may stay pending for ever
StallSpec ==
    /\ Spec
    /\ \A sid \in SessionIds :
          /\ WF_vars(SendFreeStep(sid))
          /\ WF_vars(~AwaitsObserver(sid) /\ PipelineStep(sid))

\* ================================================================ properties
Slot(sid, a) == sessions[sid].agents[a]
Results(sid) == specialist_results[sid]
Dispatched(sid) == NonEmpty(urls_buckets[sid])

\* the join of Extract has happened and its result list is about to be
\* handed to Synthesize
FanInDone(sid) == pc[sid] = "synthesize"

\* some call of broadcast for sid carried this event
WasBroadcast(sid, e) == \E k \in 1..Len(broadcasts[sid]) : broadcasts[sid][k] = e

\* the records of the result list that stem from the branch of platform p
BranchRecords(sid, p) ==
    IF results_raw[sid][p].exc
    THEN {r \in Range(Results(sid)) : r.platform = p /\ r.url = SentinelUrl}
    ELSE Range(results_raw[sid][p].out)

PositionsOf(sid, p) == {k \in 1..Len(Results(sid)) : Results(sid)[k] \in BranchRecords(sid, p)}

\* C1: once a session's status is completed or error, each of its seven
\* agent slots is done or error, none is running or waiting.
C1_SlotsSettledAtEnd ==
    \A sid \in DOMAIN sessions :
        sessions[sid].status \in {"completed", "error"} =>
            \A a \in AgentSet : Slot(sid, a).status \in {"done", "error"}

\* C2: a launched branch has its slot running while its crew executes, and
\* when all branches have settled the slot is done for a branch that
\* succeeded and error for a branch that failed, before Synthesize starts.
C2_BranchSlotFollowsOutcome ==
    \A sid \in DOMAIN sessions : \A p \in Platforms :
        /\ task[sid][p] = "executing" => Slot(sid, p).status = "running"
        /\ (pc[sid] = "gather" /\ GatherDone(task[sid])) \/ pc[sid] = "synthesize" =>
              /\ task[sid][p] = "returned" => Slot(sid, p).status = "done"
              /\ task[sid][p] = "raised" => Slot(sid, p).status = "error"

\* C3: the result list of Extract has as many records as there are platforms
\* with a non-empty URL sequence: one record from each such platform's
\* branch, failed or not, and none from a platform with an empty sequence.
C3_OneRecordPerDispatchedPlatform ==
    \A sid \in SessionIds :
        FanInDone(sid) =>
            /\ Len(Results(sid)) = Cardinality(Dispatched(sid))
            /\ \A p \in Platforms :
                  Cardinality(PositionsOf(sid, p)) = IF p \in Dispatched(sid) THEN 1 ELSE 0

C3_Witness ==
    \E sid \in SessionIds :
        /\ pc[sid] = "synthesize"
        /\ Dispatched(sid) = {"web"}
        /\ task[sid]["web"] = "raised"
        /\ Len(Results(sid)) = 1

\* C4: a failed branch is represented in the result list by exactly one
\* record with its platform and the url https://invalid.local, a branch that
\* succeeded by its own output; the run goes on to Synthesize and ends
\* completed when Synthesize succeeds.
C4_SentinelForFailedBranch ==
    \A sid \in SessionIds :
        /\ FanInDone(sid) =>
              \A p \in Platforms :
                  /\ task[sid][p] = "raised" =>
                        Cardinality({k \in 1..Len(Results(sid)) :
                            Results(sid)[k].platform = p /\ Results(sid)[k].url = SentinelUrl}) = 1
                  /\ task[sid][p] = "returned" =>
                        results_raw[sid][p].out[1] \in Range(Results(sid))
        /\ (\/ \E p \in Platforms : task[sid][p] = "raised"
            \/ \E k \in 1..Len(Results(sid)) : Results(sid)[k].url = SentinelUrl) =>
              sessions[sid].status = "running"
        /\ pc[sid] = "finished" /\ final_response[sid] # NoResult =>
              sessions[sid].status = "completed"

\* a completed run in which the branch of p was started and never reported
\* its analysis, while the branch of q did
C4_Witness ==
    \E sid \in SessionIds : \E p, q \in Platforms :
        /\ pc[sid] = "finished"
        /\ sessions[sid].status = "completed"
        /\ WasBroadcast(sid, AgentUpdate(p, "running", "Analyzing 1 URLs..."))
        /\ ~WasBroadcast(sid, AgentUpdate(p, "done", "Analysis complete."))
        /\ WasBroadcast(sid, AgentUpdate(q, "done", "Analysis complete."))

\* C5: the failure of one branch leaves the other branches alone: the step
\* in which a branch fails changes no other branch's task, output or slot,
\* the join happens only when every launched branch has settled, and a
\* branch that succeeded has its own output in the result list and its slot
\* done when Synthesize starts.
C5_BranchFailureIsIsolated ==
    /\ [](\A sid \in SessionIds :
            FanInDone(sid) =>
                \A p \in Dispatched(sid) :
                    /\ task[sid][p] \in {"returned", "raised"}
                    /\ task[sid][p] = "returned" =>
                          /\ Len(results_raw[sid][p].out) = 1
                          /\ results_raw[sid][p].out[1] \in Range(Results(sid))
                          /\ Slot(sid, p).status = "done")
    /\ [][\A sid \in DOMAIN sessions : \A p \in Platforms :
            (task[sid][p] # "raised" /\ task'[sid][p] = "raised") =>
                \A q \in Platforms \ {p} :
                    /\ task'[sid][q] = task[sid][q]
                    /\ results_raw'[sid][q] = results_raw[sid][q]
                    /\ sessions'[sid].agents[q] = sessions[sid].agents[q]]_vars

C5_Witness ==
    \E sid \in SessionIds : \E p, q \in Platforms :
        /\ pc[sid] = "synthesize"
        /\ settled[sid] = <<p, q>>
        /\ task[sid][p] = "raised"
        /\ task[sid][q] = "returned"
        /\ Slot(sid, q).status = "done"

\* C6: the result list is ordered by the platform key of the branch each
\* record stems from (instagram, linkedin, youtube, x, web), whatever the
\* order in which the branches completed.
C6_FanInOrderedByPlatformKey ==
    \A sid \in SessionIds :
        FanInDone(sid) =>
            \A p, q \in Platforms : \A i \in PositionsOf(sid, p) : \A j \in PositionsOf(sid, q) :
                i < j => IndexOf(p) < IndexOf(q)

C6_Witness ==
    \E sid \in SessionIds :
        /\ pc[sid] = "synthesize"
        /\ Len(settled[sid]) = 2
        /\ IndexOf(settled[sid][1]) > IndexOf(settled[sid][2])
        /\ Len(Results(sid)) = 2

\* C7: when the session is completed, all seven slots are done, the result
\* is the text Synthesize returned, and the last broadcast is the only
\* research_complete event, carries that result, and directly follows the
\* seven closing slot updates.
C7_DoneState ==
    \A sid \in DOMAIN sessions :
        sessions[sid].status = "completed" =>
            LET b == broadcasts[sid]
                n == Len(b)
            IN  /\ \A a \in AgentSet : Slot(sid, a).status = "done"
                /\ sessions[sid].result = final_response[sid]
                /\ sessions[sid].result \in ReportTexts
                /\ n >= Len(AgentIds) + 1
                /\ b[n].type = "research_complete"
                /\ b[n].payload = <<sessions[sid].result>>
                /\ \A k \in 1..(n - 1) : b[k].type # "research_complete"
                /\ \A i \in 1..Len(AgentIds) :
                      LET e == b[n - 1 - Len(AgentIds) + i]
                      IN  e.type = "agent_update" /\ e.agent_id = AgentIds[i] /\ e.status = "done"

\* a completed run in which youtube was dispatched and web never was
C7_Witness ==
    \E sid \in DOMAIN sessions :
        /\ sessions[sid].status = "completed"
        /\ WasBroadcast(sid, AgentUpdate("youtube", "done", "Analysis complete."))
        /\ ~WasBroadcast(sid, AgentUpdate("web", "running", "Analyzing 1 URLs..."))
        /\ Slot(sid, "web").status = "done"

\* C8: whenever a session's status is error, an error event was broadcast
\* for it.
C8_ErrorIsBroadcast ==
    \A sid \in DOMAIN sessions :
        sessions[sid].status = "error" =>
            \E k \in 1..Len(broadcasts[sid]) : broadcasts[sid][k].type = "error"

\* C9: the step in which the Synthesize call fails changes nothing of the
\* session but its status, which becomes error while the result is still
\* empty, and once the run has finished no step changes the session.
C9_SynthFailureKeepsSession ==
    [][\A sid \in DOMAIN sessions :
          /\ (pc[sid] = "synth_call" /\ pc'[sid] = "finished") =>
                /\ sessions'[sid] = [sessions[sid] EXCEPT !.status = "error"]
                /\ sessions'[sid].result = NoResult
          /\ pc[sid] = "finished" =>
                /\ pc'[sid] = "finished"
                /\ sessions'[sid] = sessions[sid]]_vars

C9_Witness ==
    \E sid \in DOMAIN sessions :
        /\ pc[sid] = "finished"
        /\ sessions[sid].status = "error"
        /\ sessions[sid].result = NoResult
        /\ Slot(sid, "synthesis").status = "running"
        /\ Slot(sid, "synthesis").message = "Synthesizing research report..."
        /\ \E p \in Platforms : Slot(sid, p).status = "done"

\* Discover ended on one of its failure paths
DiscoverFailed(sid) == discovery[sid] \in {"setup_raises", "kickoff_raises", "fallback"}

\* C10: when Discover fails (its setup or its crew raises, or the result
\* cannot be coerced), the buckets are all empty, Extract launches no branch
\* and broadcasts nothing, the platform slots are untouched until the closing
\* sweep, and Synthesize gets an empty result list.
C10_DiscoverNeverAborts ==
    \A sid \in DOMAIN sessions :
        DiscoverFailed(sid) =>
            /\ urls_buckets[sid] = EmptyBuckets
            /\ \A p \in Platforms : task[sid][p] \in {"none", "skipped"}
            /\ pc[sid] \in {"dispatch", "gather", "synthesize", "synth_call", "sweep", "complete", "finished"}
            /\ pc[sid] \in {"dispatch", "gather", "synthesize", "synth_call"} =>
                  /\ \A p \in Platforms : Slot(sid, p) = [status |-> "waiting", message |-> NoMsg]
                  /\ \A k \in 1..Len(broadcasts[sid]) : broadcasts[sid][k].agent_id \notin Platforms
            /\ Results(sid) = <<>>
            /\ pc[sid] \in {"dispatch", "gather", "synthesize", "synth_call", "sweep", "complete"} =>
                  sessions[sid].status = "running"
            /\ sessions[sid].status = "error" => Slot(sid, "synthesis").status = "running"

C10_Witness ==
    \E sid \in DOMAIN sessions :
        /\ discovery[sid] = "fallback"
        /\ pc[sid] = "synth_call"
        /\ Results(sid) = <<>>
        /\ Slot(sid, "synthesis").status = "running"

\* C11: whichever way Discover ends (a result, a failed crew call, or a
\* failure while getting the tool configuration or opening the adapter), the
\* search slot is done when Extract starts and while it runs.
C11_SearchDoneBeforeExtract ==
    \A sid \in DOMAIN sessions :
        pc[sid] \in {"dispatch", "gather"} => Slot(sid, "search").status = "done"

\* C12: a session's result changes at most once, from empty to the text
\* Synthesize returned, in the step that makes the session completed; a
\* session that is not completed has the empty result.
C12_ResultWrittenOnce ==
    /\ [](\A sid \in DOMAIN sessions :
            sessions[sid].result # NoResult => sessions[sid].status = "completed")
    /\ [][\A sid \in DOMAIN sessions :
            sessions'[sid].result # sessions[sid].result =>
                /\ sessions[sid].result = NoResult
                /\ pc[sid] = "complete"
                /\ sessions'[sid].result = final_response[sid]
                /\ sessions'[sid].status = "completed"]_vars

\* a completed run holding its result, and a send that failed on the way
C12_Witness ==
    \E sid \in DOMAIN sessions : \E c \in DOMAIN chan :
        /\ sessions[sid].status = "completed"
        /\ sessions[sid].result \in ReportTexts
        /\ chan[c] = [state |-> "open", sid |-> sid]
        /\ sid \notin DOMAIN websockets

StatusMoves == {<<"pending", "running">>, <<"running", "completed">>,
                <<"pending", "error">>, <<"running", "error">>}

\* C13: a session's status is pending, running, completed or error, and every
\* change of it is pending -> running, running -> completed, or pending or
\* running -> error; completed and error are never left.
C13_StatusMonotone ==
    /\ [](\A sid \in DOMAIN sessions :
            sessions[sid].status \in {"pending", "running", "completed", "error"})
    /\ [][\A sid \in DOMAIN sessions :
            sessions'[sid].status # sessions[sid].status =>
                <<sessions[sid].status, sessions'[sid].status>> \in StatusMoves]_vars

\* a run that ended in error while an observer attached and detached
C13_Witness ==
    \E sid \in DOMAIN sessions : \E c \in DOMAIN chan :
        /\ sessions[sid].status = "error"
        /\ chan[c] = [state |-> "closed", sid |-> sid]
        /\ \E k \in 1..Len(broadcasts[sid]) : broadcasts[sid][k].type = "error"

Rank(status) ==
    CASE status = "waiting" -> 0
      [] status = "running" -> 1
      [] status \in {"done", "error"} -> 2
      [] OTHER -> -1

\* C14: no step lowers the status of an agent slot in the order
\* waiting < running < {done, error}.
C14_SlotStatusMonotone ==
    [][\A sid \in DOMAIN sessions : \A a \in AgentSet :
          /\ Rank(sessions[sid].agents[a].status) >= 0
          /\ Rank(sessions'[sid].agents[a].status) >= Rank(sessions[sid].agents[a].status)]_vars

\* the closing sweep under way after a failed and a successful branch, with
\* an observer that has come and gone
C14_Witness ==
    \E sid \in DOMAIN sessions : \E p, q \in Platforms : \E c \in DOMAIN chan :
        /\ pc[sid] = "sweep"
        /\ Slot(sid, "search").status = "done"
        /\ Slot(sid, p).status = "running"
        /\ Slot(sid, q) = [status |-> "done", message |-> "Analysis complete."]
        /\ chan[c].state = "closed"

NoChannelEver == \A c \in DOMAIN chan : chan[c].state = "new"

\* no crew call and no tool adapter of the run has failed
AllCallsSucceeded(sid) ==
    /\ discovery[sid] \in {"none", "coerced"}
    /\ outcomes[sid].failed = {}
    /\ outcomes[sid].synthesis # "raised"

\* C15: a run that has ended with no channel ever attached and no failed
\* crew call has session status completed and a non-empty result.
C15_CompletesWithoutObserver ==
    \A sid \in DOMAIN sessions :
        (pc[sid] = "finished" /\ NoChannelEver /\ AllCallsSucceeded(sid)) =>
            /\ sessions[sid].status = "completed"
            /\ sessions[sid].result \notin {NoResult, ""}

\* the slots a run with these outcomes leaves behind, before the closing sweep
ExpectedSlot(sid, a) ==
    CASE a = "search" ->
            IF outcomes[sid].built = "ok" /\ discovery[sid] # "setup_raises"
            THEN [status |-> "done", message |-> "URLs collected."]
            ELSE [status |-> "running", message |-> "Searching for relevant URLs..."]
      [] a = "synthesis" ->
            IF outcomes[sid].built = "ok"
            THEN [status |-> "running", message |-> "Synthesizing research report..."]
            ELSE [status |-> "waiting", message |-> NoMsg]
      [] OTHER ->
            IF outcomes[sid].buckets[a] = <<>> THEN [status |-> "waiting", message |-> NoMsg]
            ELSE IF a \in outcomes[sid].failed
                 THEN [status |-> "running", message |-> AnalyzingMsg(outcomes[sid].buckets[a])]
                 ELSE [status |-> "done", message |-> "Analysis complete."]

\* the session a finished run leaves behind, from the run's outcomes alone
ExpectedSession(sid) ==
    IF outcomes[sid].synthesis = "returned"
    THEN [query |-> sessions[sid].query, status |-> "completed",
          agents |-> [a \in AgentSet |-> [ExpectedSlot(sid, a) EXCEPT !.status = "done"]],
          result |-> final_response[sid]]
    ELSE [query |-> sessions[sid].query, status |-> "error",
          agents |-> [a \in AgentSet |-> ExpectedSlot(sid, a)],
          result |-> NoResult]

Terminal(sid) == sid \in DOMAIN sessions /\ sessions[sid].status \in {"completed", "error"}

\* C16: every run started for a session eventually brings the session's
\* status to completed or error.
C16_RunTerminates ==
    \A sid \in SessionIds : (pc[sid] = "begin") ~> Terminal(sid)

\* C18: a run whose session has a channel bound still reaches completed or
\* error, even if a send on that channel never completes.
C18_BroadcastNeverBlocks ==
    \A sid \in SessionIds :
        (sid \in DOMAIN sessions /\ AwaitsObserver(sid) /\ pc[sid] \notin {"none", "finished"})
            ~> Terminal(sid)

\* channel c is the one the registry holds for its session id
Bound(c) == chan[c].sid \in DOMAIN websockets /\ websockets[chan[c].sid] = c

ProbeEvent == Event("probe", "", "", NoMsg, <<>>)

\* C19: a call of broadcast changes no session; with no channel bound it
\* delivers nothing and leaves the table alone; a successful send delivers
\* the event on the bound channel only; a failed send delivers nothing and
\* removes the binding. The step in which a send fails ends the run or sets
\* status error only where the same step with a working send does, and a
\* channel that is no longer bound gets no further event.
C19_BroadcastAbsorbsFailure ==
    /\ [](\A sid \in SessionIds : \A ok \in BOOLEAN :
            LET r == Broadcast(Reg, sid, ProbeEvent, ok)
            IN  /\ r.sessions = sessions
                /\ r.broadcasts[sid] = Append(broadcasts[sid], ProbeEvent)
                /\ sid \notin DOMAIN websockets =>
                      r.websockets = websockets /\ r.received = received
                /\ sid \in DOMAIN websockets /\ ok =>
                      /\ r.websockets = websockets
                      /\ r.received = [received EXCEPT ![websockets[sid]] = Append(@, ProbeEvent)]
                /\ sid \in DOMAIN websockets /\ ~ok =>
                      /\ r.websockets = Remove(websockets, sid)
                      /\ \A c \in DOMAIN received : Len(r.received[c]) <= Len(received[c]))
    /\ [][/\ \A sid \in DOMAIN sessions :
                (sid \in DOMAIN websockets /\ sid \notin DOMAIN websockets' /\ chan' = chan) =>
                    /\ pc'[sid] # "finished" \/ pc[sid] \in {"complete", "synth_call"}
                    /\ sessions'[sid].status = "error" => pc[sid] = "synth_call"
                    /\ sessions'[sid].status = "completed" => pc[sid] = "complete"
          /\ \A c \in DOMAIN chan :
                (chan[c].state = "open" /\ chan'[c].state = "open" /\ ~Bound(c)) =>
                    received'[c] = received[c]]_vars

\* the closing sweep of a run whose observer was detached by a failed send
\* and whose handler is still in its receive loop
C19_Witness ==
    \E sid \in DOMAIN sessions : \E c \in DOMAIN chan :
        /\ chan[c] = [state |-> "open", sid |-> sid]
        /\ ~Bound(c)
        /\ pc[sid] = "sweep"
        /\ sweep[sid] > 2

\* C20: the registry holds at most one channel for a session id, an open
\* one whose handler serves that id; a channel that attaches becomes the
\* binding of its id, replacing the one that was there; an event is delivered
\* only on the channel bound at the time, so a replaced channel gets nothing
\* more.
C20_AttachReplaces ==
    /\ [](\A sid \in DOMAIN websockets :
            /\ websockets[sid] \in DOMAIN chan
            /\ chan[websockets[sid]] = [state |-> "open", sid |-> sid])
    /\ [][\A c \in DOMAIN chan :
            /\ (chan[c].state = "new" /\ chan'[c].state = "open") =>
                  /\ chan'[c].sid \in DOMAIN websockets'
                  /\ websockets'[chan'[c].sid] = c
            /\ (chan[c].state = "open" /\ chan'[c].state = "open" /\ ~Bound(c)) =>
                  received'[c] = received[c]
            /\ (chan[c].state = "open" /\ Len(received'[c]) > Len(received[c])) =>
                  /\ Bound(c)
                  /\ Len(broadcasts'[chan[c].sid]) = Len(broadcasts[chan[c].sid]) + 1
                  /\ received'[c] = Append(received[c],
                                           broadcasts'[chan[c].sid][Len(broadcasts'[chan[c].sid])])
                  /\ \A d \in DOMAIN chan \ {c} : received'[d] = received[d]]_vars

\* channel A was replaced by B while its handler is still open: A holds what
\* it got before, B has received its snapshot and later events
C20_Witness ==
    \E sid \in DOMAIN sessions : \E a, b \in DOMAIN chan :
        /\ a # b
        /\ chan[a] = [state |-> "open", sid |-> sid]
        /\ chan[b] = [state |-> "open", sid |-> sid]
        /\ sid \in DOMAIN websockets
        /\ websockets[sid] = b
        /\ Len(received[a]) >= 2
        /\ Len(received[b]) >= 3
        /\ received[b][1].type = "initial_state"

\* C21: the step in which a channel attaches to an existing session delivers
\* on it, as its first event, an initial_state event listing for each of the
\* seven slots the status and message the session holds at that moment; what
\* a channel received first stays first.
C21_InitialStateIsCurrent ==
    [][\A c \in DOMAIN chan :
          /\ (chan[c].state = "new" /\ chan'[c].state = "open" /\ chan'[c].sid \in DOMAIN sessions) =>
                /\ Len(received'[c]) = 1
                /\ received'[c][1].type = "initial_state"
                /\ Len(received'[c][1].payload) = 2 * Len(AgentIds)
                /\ \A i \in 1..Len(AgentIds) :
                      /\ received'[c][1].payload[2 * i - 1] = sessions[chan'[c].sid].agents[AgentIds[i]].status
                      /\ received'[c][1].payload[2 * i] = sessions[chan'[c].sid].agents[AgentIds[i]].message
          /\ (received[c] # <<>> /\ received'[c] # <<>>) => received'[c][1] = received[c][1]]_vars

\* a channel that attached after Discover, while a branch was running, and
\* has received a later event
C21_Witness ==
    \E c \in DOMAIN chan : \E p \in Platforms :
        /\ chan[c].state = "open"
        /\ Len(received[c]) >= 2
        /\ received[c][1].type = "initial_state"
        /\ received[c][1].payload[1] = "done"
        /\ received[c][1].payload[2 * (IndexOf(p) + 1) - 1] = "running"
        /\ received[c][2].type = "agent_update"

\* C22: a channel whose handler has ended is not bound in the registry; the
\* step in which a handler ends leaves no binding for its session id and
\* changes neither the session nor the run, and a run that has started and
\* not finished can always take its next step, whatever the channels do.
C22_HandlerEndDetaches ==
    /\ [](\A c \in DOMAIN chan : chan[c].state = "closed" => ~Bound(c))
    /\ [](\A sid \in SessionIds :
            pc[sid] \notin {"none", "finished"} => ENABLED PipelineStep(sid))
    /\ [][\A c \in DOMAIN chan :
            (chan[c].state # "closed" /\ chan'[c].state = "closed") =>
                /\ chan'[c].sid \notin DOMAIN websockets'
                /\ UNCHANGED <<sessions, broadcasts, pc, flowVars>>]_vars

\* a handler has ended while a branch of the run is executing
C22_Witness ==
    \E sid \in DOMAIN sessions : \E c \in DOMAIN chan : \E p \in Platforms :
        /\ chan[c] = [state |-> "closed", sid |-> sid]
        /\ pc[sid] = "gather"
        /\ task[sid][p] = "executing"

\* C23: update_agent_status for an id that has no session returns the
\* registry as it was: no session is created or changed, no call of
\* broadcast is made and nothing is delivered, also when a channel is bound
\* to that id and whether or not a send on it would succeed.
C23_UpdateUnknownIsNoOp ==
    \A sid \in RegIds \ DOMAIN sessions : \A a \in AgentSet : \A ok \in BOOLEAN :
        \A st \in {"waiting", "running", "done", "error"} : \A m \in RegMessages :
            UpdateAgentStatus(Reg, sid, a, st, m, ok) = Reg

\* one session exists and was updated, and an open channel is bound to the
\* id of a session that does not exist
C23_Witness ==
    \E known \in DOMAIN sessions : \E sid \in RegIds \ DOMAIN sessions : \E c \in DOMAIN chan :
        /\ sessions[known].agents["search"].status = "done"
        /\ sid \in DOMAIN websockets
        /\ websockets[sid] = c
        /\ chan[c] = [state |-> "open", sid |-> sid]

\* C26: create_session can be called whenever an id is free; the step adds
\* one session under an id no session had, with the given query, status
\* pending, seven slots waiting and no result, and changes no other session,
\* no binding and no channel.
C26_CreateSession ==
    /\ [](\A sid \in RegIds \ DOMAIN sessions : \A q \in RegQueries :
            /\ ENABLED CreateSession(sid, q)
            /\ NewSession(q).query = q)
    /\ [][DOMAIN sessions' # DOMAIN sessions =>
            \E sid \in DOMAIN sessions' \ DOMAIN sessions :
                /\ DOMAIN sessions' = DOMAIN sessions \cup {sid}
                /\ sessions'[sid].query \in RegQueries
                /\ sessions'[sid].status = "pending"
                /\ DOMAIN sessions'[sid].agents = AgentSet
                /\ \A a \in AgentSet : sessions'[sid].agents[a].status = "waiting"
                /\ sessions'[sid].result = NoResult
                /\ \A old \in DOMAIN sessions : sessions'[old] = sessions[old]
                /\ UNCHANGED <<websockets, received, chan>>]_vars

\* two sessions: one still as created, the other updated and observed
C26_Witness ==
    \E fresh, old \in DOMAIN sessions :
        /\ fresh # old
        /\ sessions[fresh].status = "pending"
        /\ \A a \in AgentSet : sessions[fresh].agents[a].status = "waiting"
        /\ sessions[old].agents["search"].status = "done"
        /\ sessions[old].query # sessions[fresh].query
        /\ old \in DOMAIN websockets

\* C24: after an update of a slot the slot's stored message is the message
\* that update carried, also when it carried none.
C24_MessageReplaced ==
    [][\A sid \in DOMAIN sessions :
          LET n == Len(broadcasts'[sid])
          IN  (n = Len(broadcasts[sid]) + 1 /\ broadcasts'[sid][n].type = "agent_update") =>
                  sessions'[sid].agents[broadcasts'[sid][n].agent_id].message
                      = broadcasts'[sid][n].message]_vars

\* C25: a session's status and result are written by operations of the
\* registry only; the registry's operations are create_session and
\* update_agent_status, which write neither once the session exists, so no
\* step of a run changes the status or the result of an existing session.
C25_MutationThroughRegistry ==
    [][\A sid \in DOMAIN sessions :
          /\ sessions'[sid].status = sessions[sid].status
          /\ sessions'[sid].result = sessions[sid].result]_vars

NoDuplicates(seq) == \A i, j \in 1..Len(seq) : seq[i] = seq[j] => i = j

\* C27: the buckets handed to Extract have the five platform keys, and each
\* platform's sequence has no URL twice and at most three URLs.
C27_BucketsWellFormed ==
    \A sid \in SessionIds :
        pc[sid] \in {"dispatch", "gather"} =>
            /\ DOMAIN urls_buckets[sid] = Platforms
            /\ \A p \in Platforms :
                  /\ NoDuplicates(urls_buckets[sid][p])
                  /\ Len(urls_buckets[sid][p]) <= 3

\* C28: every record of the result list that is no sentinel stems from the
\* branch of the platform it names and has one of the URLs handed to that
\* branch.
C28_OutputsEchoInput ==
    \A sid \in SessionIds :
        FanInDone(sid) =>
            \A k \in 1..Len(Results(sid)) :
                Results(sid)[k].url # SentinelUrl =>
                    /\ Results(sid)[k] \in Range(results_raw[sid][Results(sid)[k].platform].out)
                    /\ Results(sid)[k].url \in Range(urls_buckets[sid][Results(sid)[k].platform])

\* an event a branch of Extract broadcasts (the closing sweep's carry no message)
BranchEvent(e) == e.type = "agent_update" /\ e.agent_id \in Platforms /\ e.message # NoMsg

\* C29: branches exist only once Discover has ended and while Extract runs;
\* the join is passed, and the synthesis slot leaves waiting, only when no
\* launched branch is pending or executing; in the sequence of broadcasts
\* every branch event follows Discover's events and precedes the synthesis
\* event.
C29_StageOrder ==
    /\ [](\A sid \in SessionIds :
            /\ (\E p \in Platforms : task[sid][p] # "none") =>
                  /\ pc[sid] \in {"gather", "synthesize"}
                  /\ discovery[sid] # "none"
            /\ (\E p \in Platforms : task[sid][p] \in {"pending", "executing"}) =>
                  /\ pc[sid] = "gather"
                  /\ sid \in DOMAIN sessions
                  /\ Slot(sid, "synthesis").status = "waiting"
            /\ \A i, j \in 1..Len(broadcasts[sid]) :
                  (i < j /\ BranchEvent(broadcasts[sid][j])) =>
                      /\ broadcasts[sid][i].agent_id # "synthesis"
                      /\ \E k \in 1..(j - 1) : broadcasts[sid][k].agent_id = "search"
            /\ \A i, j \in 1..Len(broadcasts[sid]) :
                  (i < j /\ BranchEvent(broadcasts[sid][i])) =>
                      ~(broadcasts[sid][j].agent_id = "search" /\ broadcasts[sid][j].message # NoMsg))
    /\ [][\A sid \in SessionIds :
            (pc[sid] = "gather" /\ pc'[sid] # "gather") =>
                /\ pc'[sid] = "synthesize"
                /\ \A p \in Platforms : task[sid][p] \in {"skipped", "returned", "raised"}
                /\ Len(specialist_results'[sid]) = Cardinality(NonEmpty(urls_buckets[sid]))]_vars

\* Synthesize has started after two branches, one of which failed
C29_Witness ==
    \E sid \in DOMAIN sessions : \E p, q \in Platforms :
        /\ pc[sid] = "synth_call"
        /\ Slot(sid, "synthesis").status = "running"
        /\ outcomes[sid].failed = {p}
        /\ outcomes[sid].buckets[q] # <<>>
        /\ Slot(sid, q).status = "done"

\* the closing sweep has written the slot of platform p
SweepReached(sid, p) ==
    \/ pc[sid] = "sweep" /\ sweep[sid] > IndexOf(p) + 1
    \/ pc[sid] = "complete"
    \/ pc[sid] = "finished" /\ sessions[sid].status = "completed"

\* C30: once Discover has ended, a platform whose bucket is empty has no
\* branch that starts, executes or fails and no branch event; until the
\* closing sweep writes its slot, the slot is as created and no event names
\* it; afterwards the slot is done, still without a message.
C30_EmptyBucketSkipped ==
    \A sid \in DOMAIN sessions : \A p \in Platforms :
        (pc[sid] \in {"dispatch", "gather", "synthesize", "synth_call", "sweep", "complete", "finished"}
            /\ outcomes[sid].buckets[p] = <<>>) =>
            /\ task[sid][p] \in {"none", "skipped"}
            /\ p \notin outcomes[sid].failed
            /\ \A k \in 1..Len(broadcasts[sid]) :
                  broadcasts[sid][k].agent_id = p =>
                      /\ SweepReached(sid, p)
                      /\ broadcasts[sid][k] = AgentUpdate(p, "done", NoMsg)
            /\ IF SweepReached(sid, p)
               THEN Slot(sid, p) = [status |-> "done", message |-> NoMsg]
               ELSE Slot(sid, p) = [status |-> "waiting", message |-> NoMsg]

\* a run that failed in Synthesize after one branch ran: the slot of a
\* platform with an empty bucket is still waiting
C30_Witness ==
    \E sid \in DOMAIN sessions : \E p, q \in Platforms :
        /\ pc[sid] = "finished"
        /\ sessions[sid].status = "error"
        /\ outcomes[sid].buckets[p] = <<>>
        /\ outcomes[sid].buckets[q] # <<>>
        /\ Slot(sid, q).status = "done"
        /\ Slot(sid, p).status = "waiting"

\* the event of a send that is pending for sid
PendingEvent(sid) == sending[sid][1].data

\* C31: a call of update_agent_status for a known session leaves the named
\* slot with the new status, every other slot and field of the session as
\* it was, and makes exactly one call of broadcast, with an agent_update
\* event carrying the call's agent id, status and message, addressed to the
\* connection bound at that moment if there is one; while that send is
\* pending the slot already holds the status, and when the send ends the
\* connection has received that one event or nothing.
C31_UpdateWritesThenSends ==
    /\ [](\A sid \in DOMAIN sessions :
            /\ (sending[sid] # <<>> /\ PendingEvent(sid).type = "agent_update") =>
                  Slot(sid, PendingEvent(sid).agent_id).status = PendingEvent(sid).status
            /\ Idle(sid) =>
                  \A a \in RegAgents, st \in RegStatuses, m \in RegMessages :
                      LET r2 == UpdateAgentStatus(Reg, sid, a, st, m, TRUE)
                          e == AgentUpdate(a, st, m)
                      IN  /\ r2.sessions[sid].agents[a].status = st
                          /\ \A b \in AgentSet \ {a} : r2.sessions[sid].agents[b] = Slot(sid, b)
                          /\ DOMAIN r2.sessions[sid].agents = AgentSet
                          /\ r2.sessions[sid].query = sessions[sid].query
                          /\ r2.sessions[sid].status = sessions[sid].status
                          /\ r2.sessions[sid].result = sessions[sid].result
                          /\ r2.broadcasts[sid] = Append(broadcasts[sid], e)
                          /\ r2.websockets = websockets
                          /\ r2.received = received
                          /\ IF sid \in DOMAIN websockets
                             THEN r2.sending[sid] = <<[c |-> websockets[sid], data |-> e]>>
                             ELSE r2.sending = sending)
    /\ [][\A sid \in SessionIds :
            (sending[sid] # <<>> /\ sending'[sid] = <<>>) =>
                LET c == sending[sid][1].c
                IN  /\ \A d \in DOMAIN received \ {c} : received'[d] = received[d]
                    /\ \/ received'[c] = Append(received[c], PendingEvent(sid))
                       \/ received'[c] = received[c] /\ chan[c].state = "closed"
                       \/ received'[c] = <<>> /\ sid \notin DOMAIN websockets']_vars

\* the done update of the web branch is being sent to a bound connection
C31_Witness ==
    \E sid \in DOMAIN sessions :
        /\ sending[sid] # <<>>
        /\ PendingEvent(sid) = AgentUpdate("web", "done", "Analysis complete.")
        /\ sid \in DOMAIN websockets
        /\ websockets[sid] = sending[sid][1].c
        /\ received[websockets[sid]] # <<>>
        /\ Slot(sid, "web").status = "done"

\* the urls of the collected records of platform p that are not the placeholder
SourcesOf(sid, p) ==
    {Results(sid)[k].url : k \in {j \in 1..Len(Results(sid)) :
        Results(sid)[j].platform = p /\ Results(sid)[j].url # SentinelUrl}}

\* C32: when Synthesize runs, the grouping it builds holds for each platform
\* exactly the urls of the collected records of that platform that are not
\* the placeholder url, and when there is no such url the task description
\* has no sources section.
C32_SourcesGrouping ==
    \A sid \in SessionIds :
        pc[sid] = "synth_call" =>
            LET by == UrlsByPlatform(Results(sid))
            IN  /\ \A p \in Platforms :
                      /\ Range(by[p]) = SourcesOf(sid, p)
                      /\ SentinelUrl \notin Range(by[p])
                /\ (\A p \in Platforms : SourcesOf(sid, p) = {}) => UrlsSection(by) = <<>>

\* C33: in every state the agent map of each session has exactly the seven
\* keys of AgentIds, and no step removes a session or changes its query.
C33_FixedSlotsAndQuery ==
    /\ [](\A sid \in DOMAIN sessions :
            /\ DOMAIN sessions[sid].agents = AgentSet
            /\ Cardinality(DOMAIN sessions[sid].agents) = Len(AgentIds)
            /\ sessions[sid].query \in Queries)
    /\ [][\A sid \in DOMAIN sessions :
            /\ sid \in DOMAIN sessions'
            /\ sessions'[sid].query = sessions[sid].query
            /\ DOMAIN sessions'[sid].agents = DOMAIN sessions[sid].agents]_vars

\* a run that completed, observed by a connection that has closed since
C33_Witness ==
    \E sid \in DOMAIN sessions : \E c \in DOMAIN chan :
        /\ pc[sid] = "finished"
        /\ sessions[sid].status = "completed"
        /\ chan[c] = [state |-> "closed", sid |-> sid]
        /\ \A a \in AgentSet : Slot(sid, a).status = "done"
        /\ Len(broadcasts[sid]) > Len(AgentIds)

\* the position of the run in run_research and the flow, in program order
StageRank(l) ==
    CASE l = "none" -> 0
      [] l = "begin" -> 1
      [] l = "setup" -> 2
      [] l = "kickoff" -> 3
      [] l = "discover" -> 4
      [] l = "dispatch" -> 5
      [] l = "gather" -> 6
      [] l = "synthesize" -> 7
      [] l = "synth_call" -> 8
      [] l = "sweep" -> 9
      [] l = "complete" -> 10
      [] OTHER -> 11

\* C34: a run never returns to a stage it has left, so the Discover crew and
\* the Synthesize crew are each called at most once, whatever the call's
\* outcome; in Extract the crew of a platform is started only from a branch
\* that has not run yet, branches are created only by the one dispatch step,
\* and a branch that returned or raised stays so.
C34_ExecutorCalledOnce ==
    [][\A sid \in SessionIds :
          /\ StageRank(pc'[sid]) >= StageRank(pc[sid])
          /\ pc[sid] = "discover" => pc'[sid] \in {"discover", "dispatch"}
          /\ pc[sid] = "synth_call" => pc'[sid] \in {"synth_call", "sweep", "finished"}
          /\ \A p \in Platforms :
                /\ (task'[sid][p] = "executing" /\ task[sid][p] # "executing") =>
                      task[sid][p] = "pending"
                /\ (task'[sid][p] = "pending" /\ task[sid][p] # "pending") =>
                      pc[sid] = "dispatch" /\ task[sid][p] = "none"
                /\ task[sid][p] \in {"returned", "raised"} =>
                      task'[sid][p] \in {task[sid][p], "none"}]_vars

\* a run in which a branch failed and the Synthesize call failed
C34_Witness ==
    \E sid \in DOMAIN sessions :
        /\ pc[sid] = "finished"
        /\ outcomes[sid].synthesis = "raised"
        /\ outcomes[sid].failed # {}
        /\ discovery[sid] = "coerced"

\* C35: while connection b holds the binding of a session, neither the end
\* of the handler of another connection a nor the end of a send that was
\* started on a removes the binding of b.
C35_StaleChannelKeepsBinding ==
    [][\A a, b \in DOMAIN chan :
          (/\ a # b
           /\ Bound(b)
           /\ \/ chan[a].state = "open" /\ chan'[a].state = "closed"
              \/ \E sid \in SessionIds :
                    /\ sending[sid] # <<>>
                    /\ sending[sid][1].c = a
                    /\ sending'[sid] = <<>>)
          => Bound(b)']_vars

AgentIndex(a) == CHOOSE i \in 1..Len(AgentIds) : AgentIds[i] = a

RECURSIVE StatusShown(_, _, _)
\* the status of slot a as a client sees it after the first i events of log:
\* the replayed snapshot, overwritten by every later agent_update for a
StatusShown(log, a, i) ==
    IF i = 0 THEN "unknown"
    ELSE IF log[i].type = "initial_state" THEN log[i].payload[2 * AgentIndex(a) - 1]
    ELSE IF log[i].type = "agent_update" /\ log[i].agent_id = a THEN log[i].status
    ELSE StatusShown(log, a, i - 1)

\* what connection c has received, followed by the event being sent to it
Delivered(c) ==
    received[c] \o
        (IF chan[c].sid \in DOMAIN sending /\ sending[chan[c].sid] # <<>>
            /\ sending[chan[c].sid][1].c = c
         THEN <<sending[chan[c].sid][1].data>> ELSE <<>>)

\* C36: for a connection that attached to an existing session and still
\* holds its binding, the snapshot it was sent, the events delivered to it
\* since and the event being sent to it account for the current status of
\* every slot: no status change fell between the snapshot and the events.
C36_NoUpdateLostAroundAttach ==
    \A c \in DOMAIN chan :
        (Bound(c) /\ received[c] # <<>> /\ received[c][1].type = "initial_state") =>
            \A a \in AgentSet :
                StatusShown(Delivered(c), a, Len(Delivered(c))) = Slot(chan[c].sid, a).status

\* a connection that attached after Discover, replacing another one, and has
\* followed the run to its end
C36_Witness ==
    \E c, d \in DOMAIN chan :
        /\ c # d
        /\ chan[d].state # "new"
        /\ Bound(c)
        /\ Len(received[c]) > 3
        /\ received[c][1].type = "initial_state"
        /\ received[c][1].payload[1] = "done"
        /\ sessions[chan[c].sid].status = "completed"

\* C37: in every state between two steps, which is what a status poll or an
\* attaching connection can see, a session has a result exactly when its
\* status is completed.
C37_ResultIffCompleted ==
    \A sid \in DOMAIN sessions :
        /\ (sessions[sid].result # NoResult) <=> (sessions[sid].status = "completed")
        /\ sessions[sid].status = "completed" => sessions[sid].result \in ReportTexts

\* a completed run whose result a bound connection has been sent
C37_Witness ==
    \E sid \in DOMAIN sessions : \E c \in DOMAIN chan :
        /\ sessions[sid].status = "completed"
        /\ sessions[sid].result \in ReportTexts
        /\ Bound(c)
        /\ chan[c].sid = sid
        /\ received[c] # <<>>
        /\ received[c][Len(received[c])].type = "research_complete"

TerminalEvent(e) == e.type \in {"research_complete", "error"}

\* C38: among the calls of broadcast of one run at most one carries a
\* research_complete or error event, and it is the last call of the run.
C38_OneTerminalEvent ==
    \A sid \in SessionIds :
        /\ \A i, j \in 1..Len(broadcasts[sid]) :
              (TerminalEvent(broadcasts[sid][i]) /\ TerminalEvent(broadcasts[sid][j])) => i = j
        /\ \A i \in 1..Len(broadcasts[sid]) :
              TerminalEvent(broadcasts[sid][i]) =>
                  /\ i = Len(broadcasts[sid])
                  /\ pc[sid] = "finished"

\* a run that failed in Synthesize after its branches reported, followed by
\* a bound connection
C38_Witness ==
    \E sid \in DOMAIN sessions : \E c \in DOMAIN chan :
        /\ Len(broadcasts[sid]) > 4
        /\ broadcasts[sid][Len(broadcasts[sid])].type = "error"
        /\ Bound(c)
        /\ chan[c].sid = sid
        /\ received[c] # <<>>
        /\ received[c][Len(received[c])].type = "error"

\* everything the program holds for session b: its record, its binding, the
\* calls of broadcast made for it, its run and the connections to its path
Footprint(b) ==
    <<IF b \in DOMAIN sessions THEN <<sessions[b]>> ELSE <<>>,
      IF b \in DOMAIN websockets THEN <<websockets[b]>> ELSE <<>>,
      broadcasts[b], sending[b], pc[b], discovery[b], urls_buckets[b], task[b],
      results_raw[b], settled[b], specialist_results[b], final_response[b],
      sweep[b], outcomes[b],
      [c \in {d \in DOMAIN chan : PairPath[d] = b} |-> <<chan[c], received[c]>>]>>

\* the step is an operation on session a: a step of its run, its creation,
\* or the attach or the end of a connection to its path
OperationOn(a) ==
    \/ pc'[a] # pc[a]
    \/ task'[a] # task[a]
    \/ sweep'[a] # sweep[a]
    \/ a \notin DOMAIN sessions /\ a \in DOMAIN sessions'
    \/ \E c \in DOMAIN chan : PairPath[c] = a /\ chan'[c] # chan[c]

\* C39: a step that is an operation on one session leaves everything held
\* for the other session as it was, the other session's connection and what
\* that connection has received included.
C39_SessionsIsolated ==
    [][\A a, b \in RegIds : (a # b /\ OperationOn(a)) => Footprint(b)' = Footprint(b)]_vars

\* both runs under way, each followed by its own connection
C39_Witness ==
    /\ DOMAIN sessions = RegIds
    /\ DOMAIN websockets = RegIds
    /\ \A c \in DOMAIN chan : Bound(c) /\ Len(received[c]) > 1
    /\ pc["s1"] = "gather"
    /\ \E p \in Platforms : task["s1"][p] = "executing"
    /\ pc["s2"] = "finished"
    /\ sessions["s2"].status = "error"

\* C40: every id in the binding table is the id of a session that exists.
C40_BindingsOfExistingSessions ==
    DOMAIN websockets \subseteq DOMAIN sessions
====
